---- MODULE Spec2Model ----
(***************************************************************************)
(* Verification model of the stock-analysis-dashboard front end:           *)
(*   - the request retry wrapper retryWithDelay (api/stockApi.js and the   *)
(*     retrying adminApi) together with react-query's own retry option,    *)
(*   - the useErrorHandler hook (executeWithRetry, setErrorState, ...),    *)
(*   - the error classification of utils/errorHandler.js,                  *)
(*   - the payload extraction ("fallback to raw_data") code of the pages,  *)
(*   - the react-query cache as the comparison hooks, the Comparison page, *)
(*     the data hooks, the Dashboard and useTriggerCollection use it,      *)
(*   - the period validators of utils/validators,                          *)
(*   - the cells of ComparisonTable and of the CSV export.                 *)
(*   - the useErrorHandler hook with overlapping operations and timers,    *)
(*   - maskKey and the active switches of the admin tables.                *)
(* The specifications share the variables: SpecApi, SpecHook, SpecCanon,   *)
(* SpecCache, SpecValid, SpecTable, SpecOverlap (SpecOverlapFair with      *)
(* fairness), SpecAdmin.                                                   *)
(***************************************************************************)
EXTENDS Integers, Sequences, FiniteSets, TLC

VARIABLES
  script,        \* behaviour of the wrapped function fn / of the server
  caller,        \* [api, retry]: which module's makeRequest, react-query retry option
  q_pc,          \* react-query fetch: "unmounted" | "idle" | "fetching" | "success" | "error"
  qFailureCount, \* react-query retryer failureCount
  httpSent,      \* HTTP requests sent during this fetch (all layers)
  rw_pc,         \* retryWithDelay: "idle" | "calling" | "delaying" | "resolved" | "rejected"
  retries,       \* retryWithDelay parameter `retries`
  delay,         \* retryWithDelay parameter `delay`
  rwCalls,       \* invocations of fn by the current retryWithDelay call chain
  rwDelays,      \* delays waited by the current retryWithDelay call chain
  rwDecision,    \* <<>> or <<[error, retries, retried]>>: last catch-block decision
  cfg,           \* useErrorHandler options
  error,         \* hook state `error`: <<>> (null) or <<errorInfo>>
  isRetrying,    \* hook state
  retryCount,    \* hook state
  autoResetTimer,\* "null" | "pending" | "fired"
  retryTimer,    \* "null" | "pending" | "fired"
  ewr_pc,        \* executeWithRetry: "unmounted" | "idle" | "awaitFn" | "backoff" | "returned"
  attempts,      \* local `attempts` of executeWithRetry
  lastError,     \* local `lastError` of executeWithRetry: <<>> or <<err>>
  fnCalls,       \* invocations of fn by the current executeWithRetry call
  ewrDelays,     \* delays waited by the current executeWithRetry call
  ewrFailed,     \* errors caught so far by the current executeWithRetry call
  ewrResult,     \* <<>> (null returned / nothing yet) or <<result>>
  view,          \* which page/card renders
  payload,       \* the API response data handed to the page
  shown,         \* the values the page extracted for display
  c_pc,          \* "input" | "rendered"
  queries,       \* react-query cache: set of [key, url, state] entries
  lastRead,      \* how the last mounted query got its data
  posts,         \* collection-trigger POSTs in flight, per ticker
  qc_pc,         \* query client: "unmounted" | "mounted"
  hookCalls,     \* overlapping hook operations: slot -> [kind, pc, attempts, lastError, timer, result]
  orphanTimers   \* live auto-reset timers that autoResetTimer.current no longer refers to

apiVars == <<caller, q_pc, qFailureCount, httpSent, rw_pc, retries, delay,
             rwCalls, rwDelays, rwDecision>>
hookVars == <<cfg, error, isRetrying, retryCount, autoResetTimer, retryTimer,
              ewr_pc, attempts, lastError, fnCalls, ewrDelays, ewrFailed, ewrResult>>
canonVars == <<view, payload, shown, c_pc>>
cacheVars == <<queries, lastRead, posts, qc_pc>>
concVars == <<hookCalls, orphanTimers>>
vars == <<script, apiVars, hookVars, canonVars, cacheVars, concVars>>

(***************************************************************************)
(* Bounds of the model                                                     *)
(***************************************************************************)
MaxFail == 4          \* longest run of initial failures of the wrapped function
MaxCfgRetries == 3    \* largest maxRetries a hook instance is configured with

(***************************************************************************)
(* Errors. An axios error carries a code, optionally a response with a     *)
(* status (0 = no response) and a message.                                 *)
(***************************************************************************)
ClientStatuses == {400, 401, 403, 404, 409, 422, 429}
ServerStatuses == {500, 502, 503, 504}

NetworkError == [code |-> "ERR_NETWORK", status |-> 0, msg |-> "Network Error"]
TimeoutError == [code |-> "ECONNABORTED", status |-> 0, msg |-> "timeout of 15000ms exceeded"]
HttpError(s) == [code |-> IF s >= 500 THEN "ERR_BAD_RESPONSE" ELSE "ERR_BAD_REQUEST",
                 status |-> s, msg |-> "Request failed with status code"]
GenericError == [code |-> "", status |-> 0, msg |-> "Cannot read properties of undefined"]

AxiosErrors == {NetworkError, TimeoutError} \cup {HttpError(s) : s \in ClientStatuses \cup ServerStatuses}
Errors == AxiosErrors \cup {GenericError}

OK == [code |-> "", status |-> 200, msg |-> "OK"]

\* The wrapped function fails with failErr on its first failN invocations and
\* settles with thenOut (a response or an error) on every later one.
\* The errors the scripted function fails with: one of each class the code
\* tells apart.
ScriptErrors == {NetworkError, TimeoutError, HttpError(404), HttpError(429),
                 HttpError(500), HttpError(503), GenericError}
Scripts == [failN : 0..MaxFail, failErr : ScriptErrors, thenOut : ScriptErrors \cup {OK}]
Outcome(s, k) == IF k <= s.failN THEN s.failErr ELSE s.thenOut

(***************************************************************************)
(* api/stockApi.js and the retrying adminApi                               *)
(***************************************************************************)
MAX_RETRIES_STOCK == 3
MAX_RETRIES_ADMIN == 2
RETRY_DELAY == 1000
MAX_RETRIES(api) == IF api = "stock" THEN MAX_RETRIES_STOCK ELSE MAX_RETRIES_ADMIN

QUERY_RETRY_DEFAULT == 1     \* queryClient defaultOptions.queries.retry
QUERY_RETRY_DASHBOARD == 2   \* the Dashboard's useQuery options
MUTATION_RETRY == 0          \* useMutation: no retry option given anywhere

Callers == {[api |-> "stock", kind |-> "query", retry |-> QUERY_RETRY_DEFAULT],
            [api |-> "stock", kind |-> "query", retry |-> QUERY_RETRY_DASHBOARD],
            [api |-> "stock", kind |-> "mutation", retry |-> MUTATION_RETRY],
            [api |-> "admin", kind |-> "query", retry |-> QUERY_RETRY_DEFAULT],
            [api |-> "admin", kind |-> "mutation", retry |-> MUTATION_RETRY]}

\* retryWithDelay's catch block: const shouldRetry = retries > 0 && (...)
ShouldRetry(err, r) ==
  r > 0 /\ (\/ err.code = "ERR_NETWORK"
            \/ err.code = "ECONNABORTED"
            \/ (err.status # 0 /\ err.status >= 500 /\ err.status < 600))

\* the delay handed to the recursive call: delay * 2
NextDelay_Linear(d) == d + RETRY_DELAY

NextDelay(d) == d * 2

\* no query or mutation is mounted
ApiIdle ==
  /\ caller = [api |-> "stock", kind |-> "query", retry |-> QUERY_RETRY_DEFAULT]
  /\ q_pc = "unmounted" /\ qFailureCount = 0 /\ httpSent = 0
  /\ rw_pc = "idle" /\ retries = 0 /\ delay = 0
  /\ rwCalls = 0 /\ rwDelays = <<>> /\ rwDecision = <<>>

\* useQuery / useMutation runs its function: stockApi.x() = makeRequest(fn)
\* = retryWithDelay(fn, MAX_RETRIES, RETRY_DELAY), which awaits fn().
QueryFetch(c) ==
  /\ q_pc = "idle"
  /\ caller' = c
  /\ q_pc' = "fetching"
  /\ qFailureCount' = 0
  /\ rw_pc' = "calling"
  /\ retries' = MAX_RETRIES(c.api)
  /\ delay' = RETRY_DELAY
  /\ rwCalls' = 1
  /\ httpSent' = 1
  /\ rwDelays' = <<>>
  /\ rwDecision' = <<>>
  /\ UNCHANGED <<script, hookVars, canonVars>>
  /\ UNCHANGED <<cacheVars, concVars>>

\* `return await fn()` with fn fulfilled; the query receives the response.
RwFnResolve ==
  /\ rw_pc = "calling"
  /\ Outcome(script, httpSent) = OK
  /\ rw_pc' = "resolved"
  /\ q_pc' = "success"
  /\ UNCHANGED <<script, caller, qFailureCount, httpSent, retries, delay,
                 rwCalls, rwDelays, rwDecision, hookVars, canonVars>>
  /\ UNCHANGED <<cacheVars, concVars>>

\* the catch block of retryWithDelay
RwFnReject ==
  /\ rw_pc = "calling"
  /\ Outcome(script, httpSent) # OK
  /\ LET err == Outcome(script, httpSent)
         shouldRetry == ShouldRetry(err, retries)
     IN /\ rwDecision' = <<[error |-> err, retries |-> retries, retried |-> shouldRetry]>>
        /\ IF shouldRetry
             THEN /\ rw_pc' = "delaying"
                  /\ rwDelays' = Append(rwDelays, delay)
             ELSE /\ rw_pc' = "rejected"
                  /\ rwDelays' = rwDelays
  /\ UNCHANGED <<script, caller, q_pc, qFailureCount, httpSent, retries, delay,
                 rwCalls, hookVars, canonVars>>
  /\ UNCHANGED <<cacheVars, concVars>>

\* the setTimeout resolves: return retryWithDelay(fn, retries - 1, delay * 2)
RwDelayElapsed ==
  /\ rw_pc = "delaying"
  /\ retries' = retries - 1
  /\ delay' = NextDelay(delay)
  /\ rwCalls' = rwCalls + 1
  /\ httpSent' = httpSent + 1
  /\ rw_pc' = "calling"
  /\ UNCHANGED <<script, caller, q_pc, qFailureCount, rwDelays, rwDecision,
                 hookVars, canonVars>>
  /\ UNCHANGED <<cacheVars, concVars>>

\* react-query's retryer: a rejected query function is run again while
\* failureCount < retry, whatever the error is.
QueryShouldRetry(failureCount, retry) == failureCount < retry

QueryRetry ==
  /\ q_pc = "fetching" /\ rw_pc = "rejected"
  /\ QueryShouldRetry(qFailureCount, caller.retry)
  /\ qFailureCount' = qFailureCount + 1
  /\ rw_pc' = "calling"
  /\ retries' = MAX_RETRIES(caller.api)
  /\ delay' = RETRY_DELAY
  /\ rwCalls' = 1
  /\ httpSent' = httpSent + 1
  /\ rwDelays' = <<>>
  /\ rwDecision' = <<>>
  /\ UNCHANGED <<script, caller, q_pc, hookVars, canonVars>>
  /\ UNCHANGED <<cacheVars, concVars>>

\* retries used up: the error is reported to the page
QueryFail ==
  /\ q_pc = "fetching" /\ rw_pc = "rejected"
  /\ ~QueryShouldRetry(qFailureCount, caller.retry)
  /\ qFailureCount' = qFailureCount + 1
  /\ q_pc' = "error"
  /\ UNCHANGED <<script, caller, httpSent, rw_pc, retries, delay, rwCalls,
                 rwDelays, rwDecision, hookVars, canonVars>>
  /\ UNCHANGED <<cacheVars, concVars>>

(***************************************************************************)
(* utils/errorHandler.js                                                   *)
(***************************************************************************)
MsgIncludesNetworkError(m) == m = "Network Error"
MsgIncludesTimeout(m) == m = "timeout of 15000ms exceeded"

getErrorType(err) ==
  IF MsgIncludesNetworkError(err.msg) \/ err.code = "ERR_NETWORK" THEN "network"
  ELSE IF err.code = "ECONNABORTED" \/ MsgIncludesTimeout(err.msg) THEN "network"
  ELSE IF err.status # 0 THEN
         IF err.status = 401 \/ err.status = 403 THEN "auth"
         ELSE IF err.status = 404 THEN "not_found"
         ELSE IF err.status = 400 \/ err.status = 422 THEN "validation"
         ELSE IF err.status >= 500 THEN "server"
         ELSE "api"
  ELSE "unknown"

getErrorSeverity(err) ==
  LET errorType == getErrorType(err)
  IN IF errorType \in {"network", "validation", "not_found"} THEN "warning"
     ELSE IF errorType = "auth" THEN "error"
     ELSE IF errorType = "server" THEN "critical"
     ELSE "error"

isRetryableError_No429(err) ==
  LET errorType == getErrorType(err)
  IN IF errorType = "network" \/ errorType = "server" THEN TRUE
     ELSE IF err.status # 0 THEN err.status \in {502, 503, 504}
     ELSE FALSE

isRetryableError(err) ==
  LET errorType == getErrorType(err)
  IN IF errorType = "network" \/ errorType = "server" THEN TRUE
     ELSE IF err.status # 0 THEN err.status \in {429, 502, 503, 504}
     ELSE FALSE

createErrorResponse(err) ==
  [type |-> getErrorType(err),
   severity |-> getErrorSeverity(err),
   retryable |-> isRetryableError(err)]

(***************************************************************************)
(* useErrorHandler                                                         *)
(***************************************************************************)
DEFAULT_MAX_RETRIES == 3
DEFAULT_RETRY_DELAY == 1000
RetryDelays == {DEFAULT_RETRY_DELAY, 250}

Configs == [maxRetries : 0..MaxCfgRetries, retryDelay : RetryDelays,
            exponentialBackoff : BOOLEAN, autoReset : BOOLEAN]
DEFAULT_CONFIG == [maxRetries |-> DEFAULT_MAX_RETRIES, retryDelay |-> DEFAULT_RETRY_DELAY,
                   exponentialBackoff |-> TRUE, autoReset |-> TRUE]

RECURSIVE Pow2(_)
Pow2(n) == IF n <= 0 THEN 1 ELSE 2 * Pow2(n - 1)

\* the object setErrorState stores in `error`
ErrorInfo(err) ==
  [type |-> getErrorType(err),
   severity |-> getErrorSeverity(err),
   retryable |-> isRetryableError(err),
   originalError |-> err]

\* clearTimers: a ref holding a timer id (pending or already fired) is cleared
clearTimers ==
  /\ autoResetTimer' = "null"
  /\ retryTimer' = "null"

\* resetError: clearTimers(); setError(null); setIsRetrying(false); setRetryCount(0)
resetError ==
  /\ clearTimers
  /\ error' = <<>>
  /\ isRetrying' = FALSE
  /\ retryCount' = 0

\* setErrorState's handling of autoResetTimer: clearTimers() first, then
\* "if (options.autoReset) autoResetTimer.current = setTimeout(...)".
\* ref is what autoResetTimer.current holds afterwards; orphaned counts the
\* live timer the assignment overwrote without clearing it.
setErrorStateTimers_NoClear(ref, autoReset) ==
  [ref |-> IF autoReset THEN "pending" ELSE ref,
   orphaned |-> IF autoReset /\ ref = "pending" THEN 1 ELSE 0]

setErrorStateTimers(ref, autoReset) ==
  LET cleared == "null"
  IN [ref |-> IF autoReset THEN "pending" ELSE cleared,
      orphaned |-> IF autoReset /\ cleared = "pending" THEN 1 ELSE 0]

\* setErrorState leaves retryCount alone
setErrorState(err) ==
  /\ retryTimer' = "null"
  /\ error' = <<ErrorInfo(err)>>
  /\ isRetrying' = FALSE
  /\ autoResetTimer' = setErrorStateTimers(autoResetTimer, cfg.autoReset).ref
  /\ retryCount' = retryCount

\* the hook's derived state
hasError == error # <<>>
isRetryable == IF error # <<>> THEN error[1].retryable ELSE FALSE

\* executeWithRetry's catch: isRetryableError(err) && attempts <= options.maxRetries
\* (attempts already incremented)
EwrShouldRetry_Eager(err, att, maxRetries) == isRetryableError(err) /\ att < maxRetries

EwrShouldRetry(err, att, maxRetries) == isRetryableError(err) /\ att <= maxRetries

EwrDelay(att, c) ==
  IF c.exponentialBackoff THEN c.retryDelay * Pow2(att - 1) ELSE c.retryDelay

\* no component uses the hook
HookIdle ==
  /\ cfg = DEFAULT_CONFIG
  /\ error = <<>> /\ isRetrying = FALSE /\ retryCount = 0
  /\ autoResetTimer = "null" /\ retryTimer = "null"
  /\ ewr_pc = "unmounted" /\ attempts = 0 /\ lastError = <<>>
  /\ fnCalls = 0 /\ ewrDelays = <<>> /\ ewrFailed = <<>> /\ ewrResult = <<>>

NoCallRunning == ewr_pc \in {"idle", "returned"}

\* executeWithRetry(fn) up to its first `await fn()`
ExecuteWithRetry ==
  /\ NoCallRunning
  /\ script' = script
  /\ clearTimers
  /\ error' = <<>>
  /\ isRetrying' = FALSE      \* setIsRetrying(attempts > 0) with attempts = 0
  /\ retryCount' = 0          \* setRetryCount(attempts)
  /\ attempts' = 0
  /\ lastError' = <<>>
  /\ fnCalls' = 1
  /\ ewrDelays' = <<>>
  /\ ewrFailed' = <<>>
  /\ ewrResult' = <<>>
  /\ ewr_pc' = "awaitFn"
  /\ UNCHANGED <<cfg, apiVars, canonVars>>
  /\ UNCHANGED <<cacheVars, concVars>>

\* fn fulfilled: resetError(); return result
EwrFnResolve ==
  /\ ewr_pc = "awaitFn"
  /\ Outcome(script, fnCalls) = OK
  /\ resetError
  /\ ewrResult' = <<OK>>
  /\ ewr_pc' = "returned"
  /\ UNCHANGED <<script, cfg, attempts, lastError, fnCalls, ewrDelays, ewrFailed,
                 apiVars, canonVars>>
  /\ UNCHANGED <<cacheVars, concVars>>

\* fn rejected: the catch block, then either the backoff wait or, after the
\* break, setErrorState(lastError); return null
EwrFnReject ==
  /\ ewr_pc = "awaitFn"
  /\ Outcome(script, fnCalls) # OK
  /\ LET err == Outcome(script, fnCalls)
         att == attempts + 1
     IN /\ lastError' = <<err>>
        /\ attempts' = att
        /\ ewrFailed' = Append(ewrFailed, err)
        /\ IF EwrShouldRetry(err, att, cfg.maxRetries)
             THEN /\ retryTimer' = "pending"
                  /\ ewrDelays' = Append(ewrDelays, EwrDelay(att, cfg))
                  /\ ewr_pc' = "backoff"
                  /\ UNCHANGED <<error, isRetrying, retryCount, autoResetTimer>>
             ELSE /\ setErrorState(err)
                  /\ ewrDelays' = ewrDelays
                  /\ ewr_pc' = "returned"
  /\ ewrResult' = <<>>
  /\ UNCHANGED <<script, cfg, fnCalls, apiVars, canonVars>>
  /\ UNCHANGED <<cacheVars, concVars>>

\* the backoff timer fires; the loop runs its next iteration up to `await fn()`
EwrRetryTimerFires ==
  /\ ewr_pc = "backoff"
  /\ retryTimer = "pending"
  /\ retryTimer' = "fired"
  /\ IF attempts <= cfg.maxRetries
       THEN /\ isRetrying' = (attempts > 0)
            /\ retryCount' = attempts
            /\ fnCalls' = fnCalls + 1
            /\ ewr_pc' = "awaitFn"
            /\ UNCHANGED <<error, autoResetTimer>>
       ELSE /\ error' = <<ErrorInfo(lastError[1])>>
            /\ isRetrying' = FALSE
            /\ autoResetTimer' = IF cfg.autoReset THEN "pending" ELSE "null"
            /\ UNCHANGED <<retryCount, fnCalls>>
            /\ ewr_pc' = "returned"
  /\ UNCHANGED <<script, cfg, attempts, lastError, ewrDelays, ewrFailed, ewrResult,
                 apiVars, canonVars>>
  /\ UNCHANGED <<cacheVars, concVars>>

\* the auto-reset timer set by setErrorState fires: resetError()
AutoResetFires ==
  /\ autoResetTimer = "pending"
  /\ resetError
  /\ UNCHANGED <<script, cfg, ewr_pc, attempts, lastError, fnCalls, ewrDelays,
                 ewrFailed, ewrResult, apiVars, canonVars>>
  /\ UNCHANGED <<cacheVars, concVars>>

\* handleError(err) = setErrorState(err, context), called by the component
HandleError(err) ==
  /\ NoCallRunning
  /\ setErrorState(err)
  /\ UNCHANGED <<script, cfg, ewr_pc, attempts, lastError, fnCalls, ewrDelays,
                 ewrFailed, ewrResult, apiVars, canonVars>>
  /\ UNCHANGED <<cacheVars, concVars>>

\* resetError(), called by the component
ResetError ==
  /\ NoCallRunning
  /\ hasError
  /\ resetError
  /\ UNCHANGED <<script, cfg, ewr_pc, attempts, lastError, fnCalls, ewrDelays,
                 ewrFailed, ewrResult, apiVars, canonVars>>
  /\ UNCHANGED <<cacheVars, concVars>>

(***************************************************************************)
(* Payload extraction in the pages and cards. A JSON value is <<>> when it *)
(* is null or undefined (a missing key) and <<n>> when it is the number n; *)
(* scores and percentages are counted in hundredths (1.0 = 100).           *)
(***************************************************************************)
Null == <<>>
Num(n) == <<n>>
Nullish(x) == x = Null
Falsy(x) == x = Null \/ x = Num(0)
\* a ?? b
Coalesce(a, b) == IF Nullish(a) THEN b ELSE a
\* a || b
OrElse(a, b) == IF Falsy(a) THEN b ELSE a

ParsedCounts == {Null, Num(0), Num(5)}
RawCounts == {Null, Num(0), Num(7)}
RatingsData ==
  [strong_buy_count : ParsedCounts, buy_count : ParsedCounts, hold_count : ParsedCounts,
   sell_count : ParsedCounts, strong_sell_count : ParsedCounts, total_analysts : ParsedCounts,
   raw_data : {Null} \cup
     {<<c>> : c \in [buy : RawCounts, hold : RawCounts, sell : RawCounts,
                     numberOfAnalystRatings : RawCounts]}]

NoConsensus == [buy |-> Null, hold |-> Null, sell |-> Null, numberOfAnalystRatings |-> Null]

\* pages/AnalystRatings: extractRatings, the rating counts
extractRatings(p) ==
  IF p = Null
    THEN [strong_buy |-> Null, buy |-> Null, hold |-> Null, sell |-> Null,
          strong_sell |-> Null, total_analysts |-> Null]
    ELSE LET data == p[1]
             consensus == IF data.raw_data = Null THEN NoConsensus ELSE data.raw_data[1]
         IN [strong_buy |-> Coalesce(data.strong_buy_count, Num(0)),
             buy |-> OrElse(OrElse(data.buy_count, consensus.buy), Num(0)),
             hold |-> OrElse(OrElse(data.hold_count, consensus.hold), Num(0)),
             sell |-> OrElse(OrElse(data.sell_count, consensus.sell), Num(0)),
             strong_sell |-> Coalesce(data.strong_sell_count, Num(0)),
             total_analysts |->
               OrElse(OrElse(data.total_analysts, consensus.numberOfAnalystRatings), Num(0))]

Scores == {Null, Num(0), Num(35), Num(-20)}
CrowdData == [sentiment_score : Scores, raw_data : {Null} \cup {<<[score |-> sc]>> : sc \in Scores}]

\* pages/Crowd: getCrowdSentimentScore
getCrowdSentimentScore(crowd) ==
  IF ~Nullish(crowd.sentiment_score) THEN crowd.sentiment_score
  ELSE IF crowd.raw_data # Null /\ ~Nullish(crowd.raw_data[1].score)
         THEN crowd.raw_data[1].score
  ELSE Num(0)

TrendActions == {Null, Num(1), Num(3)}
TrendValues == {Null, Num(0), Num(12)}
HedgeData ==
  [sentiment : Scores, trend_action : TrendActions, trend_value : TrendValues,
   raw_data : {Null} \cup
     {<<h>> : h \in [sentiment : Scores, trendAction : TrendActions, trendValue : TrendValues]}]

NoHedgeFund == [sentiment |-> Null, trendAction |-> Null, trendValue |-> Null]

hedgeSentimentLabel(s) ==
  IF Nullish(s) THEN "Unknown"
  ELSE IF s[1] >= 60 THEN "Very Bullish"
  ELSE IF s[1] >= 20 THEN "Bullish"
  ELSE IF s[1] >= -20 THEN "Neutral"
  ELSE IF s[1] >= -60 THEN "Bearish"
  ELSE "Very Bearish"

\* components/cards/HedgeFundCard: the extraction and `sentiment = sentiment ?? 0`
HedgeFundCard(data) ==
  LET fallback == Nullish(data.sentiment) /\ data.raw_data # Null
      rawHedgeFund == IF data.raw_data = Null THEN NoHedgeFund ELSE data.raw_data[1]
      sentiment0 == IF fallback THEN Coalesce(data.sentiment, rawHedgeFund.sentiment)
                    ELSE data.sentiment
      trendAction == IF fallback THEN Coalesce(data.trend_action, rawHedgeFund.trendAction)
                     ELSE data.trend_action
      trendValue == IF fallback THEN Coalesce(data.trend_value, rawHedgeFund.trendValue)
                    ELSE data.trend_value
      sentiment == Coalesce(sentiment0, Num(0))
  IN [sentiment |-> sentiment, trend_action |-> trendAction, trend_value |-> trendValue,
      label |-> hedgeSentimentLabel(sentiment)]

ParsedPercents == {Null, Num(40), Num(6200)}
RawPercents == {Null, Num(62), Num(100), Num(3800)}
NewsData ==
  [stock_bullish_score : ParsedPercents, stock_bearish_score : ParsedPercents,
   sector_bullish_score : ParsedPercents, sector_bearish_score : ParsedPercents,
   raw_data : {Null} \cup
     {<<r>> : r \in [stockBullish : RawPercents, stockBearish : RawPercents,
                     sectorBullish : RawPercents, sectorBearish : RawPercents]}]

\* "if (x !== null && x !== undefined && x <= 1.0) x = x * 100"
ToPercent(x) == IF ~Nullish(x) /\ x[1] <= 100 THEN Num(x[1] * 100) ELSE x

\* pages/NewsSentiment: the four scores the page computes with
NewsSentiment(sentiment) ==
  IF Nullish(sentiment.stock_bullish_score) /\ sentiment.raw_data # Null
    THEN LET raw == sentiment.raw_data[1]
         IN [stockBullish |-> ToPercent(raw.stockBullish),
             stockBearish |-> ToPercent(raw.stockBearish),
             sectorBullish |-> ToPercent(raw.sectorBullish),
             sectorBearish |-> ToPercent(raw.sectorBearish)]
    ELSE [stockBullish |-> sentiment.stock_bullish_score,
          stockBearish |-> sentiment.stock_bearish_score,
          sectorBullish |-> sentiment.sector_bullish_score,
          sectorBearish |-> sentiment.sector_bearish_score]

OverallScores == {Null, Num(0), Num(50)}
ParsedScores == {Null, Num(50)}
RawScores == {Null, Num(80)}
RawItems == [quantamental : RawScores, valuation : RawScores, growth : RawScores,
             quality : RawScores, momentum : RawScores, income : RawScores]
\* raw_data: absent, or the list rawList made of it (an object counts as a
\* one-element list); only rawList[0] is read
QuantData ==
  [overall_score : OverallScores, value_score : ParsedScores, growth_score : ParsedScores,
   quality_score : ParsedScores, momentum_score : ParsedScores, income_score : ParsedScores,
   raw_data : {Null, <<"emptyList">>} \cup {<<"list", r>> : r \in RawItems}]

QuantFields(scores) ==
  [overall_score |-> scores.overall_score, value_score |-> scores.value_score,
   growth_score |-> scores.growth_score, quality_score |-> scores.quality_score,
   momentum_score |-> scores.momentum_score, income_score |-> scores.income_score]

\* pages/Quantamental: extractScores, the six score fields
extractScores(scores) ==
  IF ~Nullish(scores.overall_score) THEN QuantFields(scores)
  ELSE IF scores.raw_data # Null /\ scores.raw_data[1] = "list"
    THEN LET rawItem == scores.raw_data[2]
         IN [overall_score |-> Coalesce(rawItem.quantamental, scores.overall_score),
             value_score |-> Coalesce(rawItem.valuation, scores.value_score),
             growth_score |-> Coalesce(rawItem.growth, scores.growth_score),
             quality_score |-> Coalesce(rawItem.quality, scores.quality_score),
             momentum_score |-> Coalesce(rawItem.momentum, scores.momentum_score),
             income_score |-> Coalesce(rawItem.income, scores.income_score)]
  ELSE QuantFields(scores)

CanonIdle ==
  /\ view = "none" /\ payload = <<>> /\ shown = <<>> /\ c_pc = "input"

RenderRatings ==
  /\ c_pc = "input" /\ view = "ratings"
  /\ shown' = <<extractRatings(payload)>>
  /\ c_pc' = "rendered"
  /\ UNCHANGED <<script, view, payload, apiVars, hookVars>>
  /\ UNCHANGED <<cacheVars, concVars>>

RenderCrowd ==
  /\ c_pc = "input" /\ view = "crowd"
  /\ shown' = <<getCrowdSentimentScore(payload[1])>>
  /\ c_pc' = "rendered"
  /\ UNCHANGED <<script, view, payload, apiVars, hookVars>>
  /\ UNCHANGED <<cacheVars, concVars>>

RenderHedgeFund ==
  /\ c_pc = "input" /\ view = "hedge"
  /\ shown' = <<HedgeFundCard(payload[1])>>
  /\ c_pc' = "rendered"
  /\ UNCHANGED <<script, view, payload, apiVars, hookVars>>
  /\ UNCHANGED <<cacheVars, concVars>>

RenderNews ==
  /\ c_pc = "input" /\ view = "news"
  /\ shown' = <<NewsSentiment(payload[1])>>
  /\ c_pc' = "rendered"
  /\ UNCHANGED <<script, view, payload, apiVars, hookVars>>
  /\ UNCHANGED <<cacheVars, concVars>>

RenderQuant ==
  /\ c_pc = "input" /\ view = "quant"
  /\ shown' = <<extractScores(payload[1])>>
  /\ c_pc' = "rendered"
  /\ UNCHANGED <<script, view, payload, apiVars, hookVars>>
  /\ UNCHANGED <<cacheVars, concVars>>

(***************************************************************************)
(* react-query cache: the comparison hooks and page, the data hooks, the   *)
(* Dashboard queries and the collection trigger                            *)
(*                                                                         *)
(* A string is a sequence of characters (of longer tokens where the        *)
(* characters do not matter).  A query key is [name, args]; a request is   *)
(* [method, path, query].                                                  *)
(***************************************************************************)
MaxQueries == 3   \* cache entries held at once
MaxPosts == 2     \* trigger POSTs in flight at once

GM == <<"G", "M">>
F == <<"F">>
P1d == <<"1", "d">>
P1w == <<"1", "w">>
P0d == <<"0", "d">>
PERIODS_LITERAL == <<"1", "h", ",", "4", "h", ",", "1", "d", ",", "1", "w">>
ANALYST_RATINGS == <<"analyst_ratings">>
H24 == <<"24">>

\* Array.prototype.join(',')
RECURSIVE Join(_)
Join(arr) ==
  IF Len(arr) = 0 THEN <<>>
  ELSE IF Len(arr) = 1 THEN arr[1]
  ELSE arr[1] \o <<",">> \o Join(Tail(arr))

\* an array inside a query key is hashed as an array, not as its join
HashArray(arr) == <<"[">> \o Join(arr) \o <<"]">>

\* the `tickers` argument: an array of symbols or one string
TickersArgs ==
  {[isArray |-> TRUE, arr |-> a, str |-> <<>>] : a \in {<<GM>>, <<GM, F>>}}
    \cup {[isArray |-> FALSE, arr |-> <<>>, str |-> GM]}

\* tickers.length
JsLength(t) == IF t.isArray THEN Len(t.arr) ELSE Len(t.str)

\* options.enabled as passed by a caller: <<>> when the key is absent
EnabledOptions == {<<>>, <<TRUE>>, <<FALSE>>}

compareOverTime(ticker, periods, dataType) ==
  [method |-> "GET", path |-> "/compare/", query |-> <<ticker, periods, dataType>>]

compareTickers(tickers, period, dataType) ==
  [method |-> "GET", path |-> "/compare/tickers/multi", query |-> <<tickers, period, dataType>>]

getAnalystRatings(ticker) ==
  [method |-> "GET", path |-> "/analyst-ratings/", query |-> <<ticker>>]

getDashboardOverview == [method |-> "GET", path |-> "/dashboard/overview", query |-> <<>>]

getDashboardAlerts(hours) ==
  [method |-> "GET", path |-> "/dashboard/alerts", query |-> <<hours>>]

getTickerOverview(ticker) ==
  [method |-> "GET", path |-> "/dashboard/ticker/", query |-> <<ticker>>]

\* what one useQuery call is given
Query(name, args, url, enabled) ==
  [key |-> [name |-> name, args |-> args], url |-> url, enabled |-> enabled]

\* where one useQuery call gets its data from, the cache as it stood:
\* "other" is a cached response of another request, "pre" a cached response
\* older than the last collection, both shown without a fetch
ReadOf(qs, q) ==
  IF ~q.enabled THEN "disabled"
  ELSE IF ~\E e \in qs : e.key = q.key THEN "network"
  ELSE LET e == CHOOSE x \in qs : x.key = q.key
       IN CASE e.state = "fetching" -> "inflight"
            [] e.state = "stale" -> "network"
            [] e.url # q.url -> "other"
            [] e.state = "pre" -> "pre"
            [] OTHER -> "cache"

\* the reads of one render, summarised by the least trustworthy source
Worst(reads) ==
  LET has(x) == \E i \in 1..Len(reads) : reads[i] = x
  IN CASE has("other") -> "other"
       [] has("pre") -> "pre"
       [] has("cache") -> "cache"
       [] has("inflight") -> "inflight"
       [] has("network") -> "network"
       [] OTHER -> "disabled"

\* the cache after one useQuery call: a new key is fetched, a stale entry is
\* refetched, a fetching or fresh entry is shared
Observe(qs, q) ==
  IF ~q.enabled THEN qs
  ELSE IF \E e \in qs : e.key = q.key
    THEN {IF e.key = q.key /\ e.state = "stale"
            THEN [e EXCEPT !.state = "fetching"] ELSE e : e \in qs}
  ELSE qs \cup {[key |-> q.key, url |-> q.url, state |-> "fetching"]}

RECURSIVE ObserveAll(_, _)
ObserveAll(qs, calls) ==
  IF calls = <<>> THEN qs ELSE ObserveAll(Observe(qs, Head(calls)), Tail(calls))

\* a component renders: its useQuery calls in order
Render(calls) ==
  /\ queries' = ObserveAll(queries, calls)
  /\ Cardinality(queries') <= MaxQueries
  /\ lastRead' = Worst([i \in 1..Len(calls) |-> ReadOf(queries, calls[i])])
  /\ UNCHANGED <<posts, qc_pc, script, apiVars, hookVars, canonVars,
                 concVars>>

\* hooks/useComparison
useCompareOverTime(ticker, periods, dataType, options) ==
  Query("compareOverTime", <<ticker, periods, dataType>>,
        compareOverTime(ticker, periods, dataType),
        IF options = <<>> THEN ticker # <<>> /\ periods # <<>> ELSE options[1])

useCompareTickers(tickers, period, dataType, options) ==
  LET tickersArray == IF tickers.isArray THEN tickers.arr ELSE <<tickers.str>>
      tickersString == Join(tickersArray)
  IN Query("compareTickers", <<tickersString, period, dataType>>,
           compareTickers(tickersString, period, dataType),
           IF options = <<>> THEN Len(tickersArray) >= 2 ELSE options[1])

UseCompareOverTime(ticker, periods, dataType, options) ==
  /\ qc_pc = "mounted"
  /\ Render(<<useCompareOverTime(ticker, periods, dataType, options)>>)

UseCompareTickers(tickers, period, dataType, options) ==
  /\ qc_pc = "mounted"
  /\ Render(<<useCompareTickers(tickers, period, dataType, options)>>)

UseComparisonData(mode, tickers, ticker, periods, period, dataType) ==
  /\ qc_pc = "mounted"
  /\ Render(<<useCompareTickers(tickers, period, dataType,
                             <<mode = "tickers" /\ JsLength(tickers) >= 2>>),
           useCompareOverTime(ticker, periods, dataType,
                              <<mode = "periods" /\ ticker # <<>> >>)>>)

\* pages/Comparison
Comparison(comparisonMode, selectedTickers, singleTicker, timeRange, dataType) ==
  /\ qc_pc = "mounted"
  /\ Render(<<Query("compareTickers", <<HashArray(selectedTickers), timeRange, dataType>>,
                 compareTickers(Join(selectedTickers), timeRange, dataType),
                 comparisonMode = "tickers" /\ Len(selectedTickers) >= 2),
           Query("comparePeriods", <<singleTicker, timeRange, dataType>>,
                 compareOverTime(singleTicker, PERIODS_LITERAL, dataType),
                 comparisonMode = "periods")>>)

\* hooks/useStockData
UseAnalystRatings(ticker) ==
  /\ qc_pc = "mounted"
  /\ Render(<<Query("analystRatings", <<ticker>>, getAnalystRatings(ticker), ticker # <<>>)>>)

UseDashboardOverview ==
  /\ qc_pc = "mounted"
  /\ Render(<<Query("dashboardOverview", <<>>, getDashboardOverview, TRUE)>>)

UseDashboardAlerts(hours) ==
  /\ qc_pc = "mounted"
  /\ Render(<<Query("dashboardAlerts", <<hours>>, getDashboardAlerts(hours), TRUE)>>)

\* App.js Dashboard
Dashboard(selectedTicker) ==
  /\ qc_pc = "mounted"
  /\ Render(<<Query("dashboard", << <<"overview">> >>, getDashboardOverview, TRUE),
           Query("dashboard", << <<"alerts">>, H24 >>, getDashboardAlerts(H24), TRUE),
           Query("dashboard", << <<"ticker">>, selectedTicker >>,
                 getTickerOverview(selectedTicker), selectedTicker # <<>>)>>)

\* the response of a fetch arrives
FetchSettles ==
  /\ qc_pc = "mounted"
  /\ \E e \in queries :
       /\ e.state = "fetching"
       /\ queries' = (queries \ {e}) \cup {[e EXCEPT !.state = "fresh"]}
  /\ UNCHANGED <<lastRead, posts, qc_pc, script, apiVars, hookVars, canonVars,
                 concVars>>

\* staleTime passes for an entry
StaleTimeElapses ==
  /\ qc_pc = "mounted"
  /\ \E e \in queries :
       /\ e.state \in {"fresh", "pre"}
       /\ queries' = (queries \ {e}) \cup {[e EXCEPT !.state = "stale"]}
  /\ UNCHANGED <<lastRead, posts, qc_pc, script, apiVars, hookVars, canonVars,
                 concVars>>

InFlight(p) == p[GM] + p[F]

\* useTriggerCollection().mutate(ticker): useMutation runs the mutation
\* function at once, whatever else is in flight
Mutate(ticker) ==
  /\ qc_pc = "mounted"
  /\ InFlight(posts) < MaxPosts
  /\ posts' = [posts EXCEPT ![ticker] = @ + 1]
  /\ UNCHANGED <<queries, lastRead, qc_pc, script, apiVars, hookVars, canonVars,
                 concVars>>

\* does the response of url carry data of ticker t
RECURSIVE Split(_)
Split(s) ==
  IF \E i \in 1..Len(s) : s[i] = ","
    THEN LET i == CHOOSE j \in 1..Len(s) : s[j] = "," /\ \A k \in 1..(j - 1) : s[k] # ","
         IN <<SubSeq(s, 1, i - 1)>> \o Split(SubSeq(s, i + 1, Len(s)))
    ELSE <<s>>

HoldsDataOf(url, t) ==
  CASE url.path \in {"/dashboard/overview", "/dashboard/alerts"} -> TRUE
    [] url.path = "/compare/tickers/multi" ->
         \E i \in 1..Len(Split(url.query[1])) : Split(url.query[1])[i] = t
    [] OTHER -> url.query[1] = t

\* queryClient.invalidateQueries(name): every query whose key starts with name
invalidateQueries(qs, name) ==
  {IF e.key.name = name /\ e.state \in {"fresh", "pre"}
     THEN [e EXCEPT !.state = "stale"] ELSE e : e \in qs}

\* onSuccess of useTriggerCollection
onSuccess(qs) ==
  invalidateQueries(invalidateQueries(qs, "dashboardOverview"), "dashboardAlerts")

\* the trigger POST settles.  On success the server holds newer data for
\* the ticker than any fresh cache entry about it, and onSuccess runs.
TriggerSettles(ticker, ok) ==
  /\ qc_pc = "mounted"
  /\ posts[ticker] > 0
  /\ posts' = [posts EXCEPT ![ticker] = @ - 1]
  /\ queries' = IF ok
                  THEN onSuccess({IF e.state = "fresh" /\ HoldsDataOf(e.url, ticker)
                                    THEN [e EXCEPT !.state = "pre"] ELSE e : e \in queries})
                  ELSE queries
  /\ UNCHANGED <<lastRead, qc_pc, script, apiVars, hookVars, canonVars,
                 concVars>>

Symbols == {GM, F}

CacheIdle ==
  /\ queries = {} /\ lastRead = "disabled"
  /\ posts = [t \in Symbols |-> 0]
  /\ qc_pc = "unmounted"

(***************************************************************************)
(* utils/validators: isValidTimeRange, isValidPeriod                       *)
(***************************************************************************)
MaxLen == 3   \* longest input string

Chars == {"0", "1", "2", "h", "H", "x", " "}

RECURSIVE StringsUpTo(_)
StringsUpTo(n) ==
  IF n = 0 THEN {<<>>}
  ELSE StringsUpTo(n - 1) \cup {Append(s, c) : s \in StringsUpTo(n - 1), c \in Chars}

\* what a caller may pass: a string, null or a number
ValidatorInputs ==
  {[type |-> "string", chars |-> s] : s \in StringsUpTo(MaxLen)}
    \cup {[type |-> "null", chars |-> <<>>], [type |-> "number", chars |-> <<>>]}

\* String.prototype.trim
RECURSIVE Trim(_)
Trim(s) ==
  IF s = <<>> THEN s
  ELSE IF Head(s) = " " THEN Trim(Tail(s))
  ELSE IF s[Len(s)] = " " THEN Trim(SubSeq(s, 1, Len(s) - 1))
  ELSE s

\* String.prototype.toLowerCase
ToLowerCase(s) == [i \in 1..Len(s) |-> IF s[i] = "H" THEN "h" ELSE s[i]]

VALID_PERIODS == {<<"1", "h">>, <<"2", "h">>, <<"4", "h">>, <<"6", "h">>,
                  <<"1", "2", "h">>, <<"1", "d">>, <<"1", "w">>, <<"1", "m">>}

\* /^[1-9][0-9]*[hdwm]$/i .test(s)
PatternTest(s) ==
  /\ Len(s) >= 2
  /\ s[1] \in {"1", "2", "3", "4", "5", "6", "7", "8", "9"}
  /\ \A i \in 2..(Len(s) - 1) : s[i] \in {"0", "1", "2", "3", "4", "5", "6", "7", "8", "9"}
  /\ s[Len(s)] \in {"h", "d", "w", "m", "H", "D", "W", "M"}

isValidTimeRange(range) ==
  IF range.type # "string" \/ range.chars = <<>> THEN FALSE
  ELSE PatternTest(Trim(range.chars))

isValidPeriod(period) ==
  IF period.type # "string" \/ period.chars = <<>> THEN FALSE
  ELSE LET normalizedPeriod == Trim(ToLowerCase(period.chars))
       IN normalizedPeriod \in VALID_PERIODS \/ isValidTimeRange(period)

\* a caller validates one input with both functions
Validate ==
  /\ c_pc = "input" /\ view = "period"
  /\ shown' = <<[isValidTimeRange |-> isValidTimeRange(payload[1]),
                 isValidPeriod |-> isValidPeriod(payload[1])]>>
  /\ c_pc' = "rendered"
  /\ UNCHANGED <<script, view, payload, apiVars, hookVars>>
  /\ UNCHANGED <<cacheVars, concVars>>

(***************************************************************************)
(* components/charts/ComparisonTable and the CSV export of pages/Comparison *)
(* A rendered text is a sequence of string tokens.                         *)
(***************************************************************************)
Values == {Null, Num(0), Num(150)}
Changes == {Null, Num(0), Num(25), Num(-25)}
Trends == {Null, <<"up">>, <<"down">>, <<"flat">>}
Comparisons ==
  [previous_value : Values, absolute_change : Changes, percent_change : Changes,
   trend : Trends]

Abs(n) == IF n < 0 THEN -n ELSE n

\* Number.prototype.toFixed(2) of a number given in hundredths
ToFixed2(n) ==
  (IF n < 0 THEN <<"-">> ELSE <<>>)
    \o <<ToString(Abs(n) \div 100), ".", ToString((Abs(n) % 100) \div 10),
         ToString(Abs(n) % 10)>>

\* String(number) of a number given in hundredths
NumberToString(n) ==
  (IF n < 0 THEN <<"-">> ELSE <<>>)
    \o <<ToString(Abs(n) \div 100)>>
    \o (IF Abs(n) % 100 = 0 THEN <<>>
        ELSE IF Abs(n) % 10 = 0 THEN <<".", ToString((Abs(n) % 100) \div 10)>>
        ELSE <<".", ToString((Abs(n) % 100) \div 10), ToString(Abs(n) % 10)>>)

\* trend === 'up' || trend > 0, trend === 'down' || trend < 0: a string or
\* null compares neither above nor below 0
getTrendIcon(trend) ==
  IF trend = <<"up">> THEN "TrendingUp"
  ELSE IF trend = <<"down">> THEN "TrendingDown"
  ELSE "TrendingFlat"

formatChange(change, isPercent) ==
  IF Nullish(change) THEN <<"-">>
  ELSE LET formatted == IF isPercent THEN ToFixed2(change[1]) \o <<"%">>
                        ELSE ToFixed2(change[1])
       IN IF change[1] > 0 THEN <<"+">> \o formatted ELSE formatted

\* null > 0 and null < 0 are both false
getChangeColor(change) ==
  IF ~Nullish(change) /\ change[1] > 0 THEN "success.main"
  ELSE IF ~Nullish(change) /\ change[1] < 0 THEN "error.main"
  ELSE "text.secondary"

\* renderCell(row, column) for the columns the Comparison page passes
renderCell(row, column) ==
  LET value == row[column.id]
  IN CASE column.format = "trend" ->
            [text |-> <<>>, color |-> "", icon |-> getTrendIcon(value)]
       [] column.format = "change" ->
            [text |-> formatChange(value, FALSE), color |-> getChangeColor(value), icon |-> ""]
       [] column.format = "percent" ->
            [text |-> formatChange(value, TRUE), color |-> getChangeColor(value), icon |-> ""]
       [] OTHER ->
            [text |-> IF Nullish(value) THEN <<"-">> ELSE ToFixed2(value[1]),
             color |-> "", icon |-> ""]

PageColumns ==
  <<[id |-> "previous", format |-> ""], [id |-> "change", format |-> "change"],
    [id |-> "percentChange", format |-> "percent"], [id |-> "trend", format |-> "trend"]>>

\* the row the Comparison page builds from a comparison, then its cells
ComparisonTable(c) ==
  LET row == [previous |-> c.previous_value, change |-> c.absolute_change,
              percentChange |-> c.percent_change, trend |-> c.trend]
  IN [i \in 1..Len(PageColumns) |-> renderCell(row, PageColumns[i])]

\* handleExport('csv'): the cells of one line after Metric and Current
handleExport(comp) ==
  <<IF Nullish(comp.previous_value) THEN <<"N/A">> ELSE NumberToString(comp.previous_value[1]),
    IF Nullish(comp.absolute_change) THEN <<"N/A">> ELSE NumberToString(comp.absolute_change[1]),
    IF Nullish(comp.percent_change) THEN <<"N/A">> ELSE NumberToString(comp.percent_change[1]),
    IF Nullish(comp.trend) THEN <<"N/A">> ELSE comp.trend>>

RenderComparisonTable ==
  /\ c_pc = "input" /\ view = "table"
  /\ shown' = <<ComparisonTable(payload[1])>>
  /\ c_pc' = "rendered"
  /\ UNCHANGED <<script, view, payload, apiVars, hookVars>>
  /\ UNCHANGED <<cacheVars, concVars>>

HandleExport ==
  /\ c_pc = "input" /\ view = "csv"
  /\ shown' = <<handleExport(payload[1])>>
  /\ c_pc' = "rendered"
  /\ UNCHANGED <<script, view, payload, apiVars, hookVars>>
  /\ UNCHANGED <<cacheVars, concVars>>

(***************************************************************************)
(* useErrorHandler with overlapping operations. Every method of the hook   *)
(* is an async function or a plain callback of one component, so while one *)
(* operation waits (for fn or for its backoff timer) any other method and  *)
(* any timer callback may run. Each operation in flight has a slot; a      *)
(* backoff timer belongs to the call that started it, and retryTimer holds *)
(* the name of the timer retryTimer.current refers to.                     *)
(***************************************************************************)
MaxCalls == 2        \* operations of one hook instance in flight together
MaxRetryCount == 2   \* manual retry() is not called once retryCount is this large
MaxOverlapRetries == 1 \* largest maxRetries of a hook instance used with overlapping calls

Slots == 1..MaxCalls
TimerOf(s) == IF s = 1 THEN "t1" ELSE IF s = 2 THEN "t2" ELSE "t3"
OverlapErrors == {HttpError(503), HttpError(404)}
OverlapConfigs ==
  {c \in Configs : /\ c.maxRetries <= MaxOverlapRetries
                   /\ c.retryDelay = DEFAULT_RETRY_DELAY
                   /\ c.exponentialBackoff}

NoCall == [kind |-> "none", pc |-> "idle", attempts |-> 0, lastError |-> <<>>,
           timer |-> "none", result |-> "none"]

\* an operation that starts takes the first slot no running operation holds
Settled(s) == hookCalls[s].pc \in {"idle", "returned"}
SlotFree(s) == Settled(s) /\ \A t \in Slots : t < s => ~Settled(t)

\* clearTimeout(retryTimer.current): the timer the ref names is cancelled,
\* a timer that has fired already is not affected
CancelRetryTimer(c) ==
  [s \in Slots |->
     IF retryTimer = TimerOf(s) /\ c[s].timer = "live"
       THEN [c[s] EXCEPT !.timer = "cancelled"]
       ELSE c[s]]

\* the promise of an operation settles
Returned(call, res) ==
  [NoCall EXCEPT !.kind = call.kind, !.pc = "returned", !.result = res]

\* setErrorState, counting the timers it leaves behind
setErrorStateOverlap(err) ==
  /\ setErrorState(err)
  /\ orphanTimers' =
       orphanTimers + setErrorStateTimers(autoResetTimer, cfg.autoReset).orphaned

\* the rest of the model is not involved
OverlapFrame ==
  UNCHANGED <<script, apiVars, canonVars, cacheVars, ewr_pc, attempts, lastError,
              fnCalls, ewrDelays, ewrFailed, ewrResult>>

\* executeWithRetry(fn), or execute(fn, {retry: true}) which delegates to it,
\* up to its first `await fn()`
CallExecuteWithRetry(s) ==
  /\ SlotFree(s)
  /\ resetError
  /\ \E k \in {"executeWithRetry", "executeRetry"} :
       hookCalls' = [CancelRetryTimer(hookCalls) EXCEPT
                   ![s] = [kind |-> k, pc |-> "awaitFn", attempts |-> 0,
                           lastError |-> <<>>, timer |-> "none", result |-> "none"]]
  /\ UNCHANGED <<cfg, orphanTimers>>
  /\ OverlapFrame

\* execute(fn) with retry: false, up to `await fn()`
CallExecute(s) ==
  /\ SlotFree(s)
  /\ hookCalls' = [hookCalls EXCEPT
                 ![s] = [kind |-> "execute", pc |-> "awaitFn", attempts |-> 0,
                         lastError |-> <<>>, timer |-> "none", result |-> "none"]]
  /\ UNCHANGED <<cfg, error, isRetrying, retryCount, autoResetTimer, retryTimer,
                 orphanTimers>>
  /\ OverlapFrame

\* retry(fn), up to `await fn()`; "if (!error?.retryable) return null"
CallRetry(s) ==
  /\ SlotFree(s)
  /\ isRetryable
  /\ retryCount < MaxRetryCount
  /\ retryCount' = retryCount + 1
  /\ isRetrying' = TRUE
  /\ hookCalls' = [hookCalls EXCEPT
                 ![s] = [kind |-> "retry", pc |-> "awaitFn", attempts |-> 0,
                         lastError |-> <<>>, timer |-> "none", result |-> "none"]]
  /\ UNCHANGED <<cfg, error, autoResetTimer, retryTimer, orphanTimers>>
  /\ OverlapFrame

IsEwr(call) == call.kind \in {"executeWithRetry", "executeRetry"}

\* fn fulfils
FnResolves(s) ==
  /\ hookCalls[s].pc = "awaitFn"
  /\ IF hookCalls[s].kind = "execute"
       THEN /\ hookCalls' = [hookCalls EXCEPT ![s] = Returned(@, "ok")]
            /\ UNCHANGED <<error, isRetrying, retryCount, autoResetTimer, retryTimer>>
       ELSE /\ resetError
            /\ hookCalls' = [CancelRetryTimer(hookCalls) EXCEPT ![s] = Returned(@, "ok")]
  /\ UNCHANGED <<cfg, orphanTimers>>
  /\ OverlapFrame

\* fn rejects with err
FnRejects(s, err) ==
  /\ hookCalls[s].pc = "awaitFn"
  /\ IF IsEwr(hookCalls[s]) /\ EwrShouldRetry(err, hookCalls[s].attempts + 1, cfg.maxRetries)
       THEN /\ retryTimer' = TimerOf(s)
            /\ hookCalls' = [hookCalls EXCEPT
                           ![s] = [@ EXCEPT !.pc = "backoff", !.attempts = @ + 1,
                                            !.lastError = <<err>>, !.timer = "live"]]
            /\ UNCHANGED <<error, isRetrying, retryCount, autoResetTimer, orphanTimers>>
       ELSE /\ setErrorStateOverlap(err)
            /\ hookCalls' = [CancelRetryTimer(hookCalls) EXCEPT
                           ![s] = Returned(@, "null")]
  /\ UNCHANGED cfg
  /\ OverlapFrame

\* the backoff timer of call s fires: the loop runs its next iteration up to
\* `await fn()`
RetryTimerFires(s) ==
  /\ hookCalls[s].pc = "backoff" /\ hookCalls[s].timer = "live"
  /\ isRetrying' = (hookCalls[s].attempts > 0)
  /\ retryCount' = hookCalls[s].attempts
  /\ hookCalls' = [hookCalls EXCEPT ![s] = [@ EXCEPT !.pc = "awaitFn", !.timer = "fired"]]
  /\ UNCHANGED <<cfg, error, autoResetTimer, retryTimer, orphanTimers>>
  /\ OverlapFrame

\* an auto-reset timer fires, the one autoResetTimer.current names or one it
\* no longer names: resetError()
AutoResetTimerFires ==
  /\ \/ autoResetTimer = "pending" /\ orphanTimers' = orphanTimers
     \/ orphanTimers > 0 /\ orphanTimers' = orphanTimers - 1
  /\ resetError
  /\ hookCalls' = CancelRetryTimer(hookCalls)
  /\ UNCHANGED cfg
  /\ OverlapFrame

\* the component calls handleError(err)
CallHandleError(err) ==
  /\ setErrorStateOverlap(err)
  /\ hookCalls' = CancelRetryTimer(hookCalls)
  /\ UNCHANGED cfg
  /\ OverlapFrame

\* the component calls resetError()
CallResetError ==
  /\ hasError \/ isRetrying \/ retryTimer # "null"
  /\ resetError
  /\ hookCalls' = CancelRetryTimer(hookCalls)
  /\ UNCHANGED <<cfg, orphanTimers>>
  /\ OverlapFrame

\* the component calls clearTimers()
CallClearTimers ==
  /\ autoResetTimer # "null" \/ retryTimer # "null"
  /\ clearTimers
  /\ hookCalls' = CancelRetryTimer(hookCalls)
  /\ UNCHANGED <<cfg, error, isRetrying, retryCount, orphanTimers>>
  /\ OverlapFrame

\* no component uses the hook with overlapping operations
ConcIdle == hookCalls = [s \in Slots |-> NoCall] /\ orphanTimers = 0

(***************************************************************************)
(* components/admin: maskKey, the active switches of APIKeyManagement and  *)
(* TickerManagement (each file holds a component that is handed onUpdate   *)
(* by the Admin page and one that owns its useMutation), and               *)
(* utils/validators isValidApiKey                                          *)
(***************************************************************************)
MaxKeyLen == 9       \* longest API key

KeyChars == {"k", "7", " "}

RECURSIVE KeysUpTo(_)
KeysUpTo(n) ==
  IF n = 0 THEN {<<>>}
  ELSE KeysUpTo(n - 1) \cup {Append(s, c) : s \in KeysUpTo(n - 1), c \in KeyChars}

\* what the row holds as its key: a string, or nothing
KeyInputs ==
  {[type |-> "string", chars |-> s] : s \in KeysUpTo(MaxKeyLen)}
    \cup {[type |-> "undefined", chars |-> <<>>]}

\* '*'.repeat(n)
Repeat(n) == [i \in 1..n |-> "*"]

Min(a, b) == IF a <= b THEN a ELSE b

\* APIKeyManagement: maskKey
maskKey(key) ==
  IF key.type # "string" \/ key.chars = <<>> \/ Len(key.chars) < 8 THEN Repeat(8)
  ELSE LET k == key.chars
       IN SubSeq(k, 1, 4) \o Repeat(Min(15, Len(k) - 8)) \o SubSeq(k, Len(k) - 3, Len(k))

\* /^[A-Za-z0-9_-]+$/
ApiKeyPatternTest(s) == s # <<>> /\ \A i \in 1..Len(s) : s[i] \in {"k", "7"}

\* utils/validators: isValidApiKey
isValidApiKey(apiKey) ==
  IF apiKey.type # "string" \/ apiKey.chars = <<>> THEN FALSE
  ELSE Len(Trim(apiKey.chars)) >= 8 /\ ApiKeyPatternTest(Trim(apiKey.chars))

MaskKey ==
  /\ c_pc = "input" /\ view = "maskKey"
  /\ shown' = <<[masked |-> maskKey(payload[1]), valid |-> isValidApiKey(payload[1])]>>
  /\ c_pc' = "rendered"
  /\ UNCHANGED <<script, view, payload, apiVars, hookVars>>
  /\ UNCHANGED <<cacheVars, concVars>>

\* the rows of the tables, as the list queries returned them
Descriptions == {"", "old text"}
MaskedKeys == {"sk-1****cdef", "********"}
ProviderIds == {"", "tsla-1"}

ApiKeyRows ==
  [service_name : {"tipranks"}, api_key_masked : MaskedKeys,
   description : Descriptions, is_active : BOOLEAN]
ApiKeyRowsOwn ==
  [service_name : {"tipranks"}, masked_key : MaskedKeys,
   description : Descriptions, active : BOOLEAN]
TickerRowsOwn ==
  [symbol : {"TSLA"}, exchange : {"NASDAQ"}, tr_v4_id : ProviderIds,
   tr_v3_id : ProviderIds, active : BOOLEAN]
TickerRows ==
  [ticker : {"TSLA"}, exchange : {"NASDAQ"}, tr_v4_id : ProviderIds,
   tr_v3_id : ProviderIds, is_active : BOOLEAN]

\* adminApi.updateAPIKey / updateTicker: PUT <path>/<name> with body data
Put(path, name, data) == [method |-> "PUT", path |-> path, name |-> name, data |-> data]

\* APIKeyManagement (onUpdate): handleToggleActive
handleToggleActiveApiKey(apiKey) ==
  Put("/api/config/api-keys", apiKey.service_name, [is_active |-> ~apiKey.is_active])

\* APIKeyManagement (own mutation): handleToggleActive
handleToggleActiveApiKeyOwn(apiKey) ==
  Put("/api/config/api-keys", apiKey.service_name, [apiKey EXCEPT !.active = ~apiKey.active])

\* TickerManagement (own mutation): handleToggleActive
handleToggleActiveTickerOwn(ticker) ==
  Put("/api/config/tickers", ticker.symbol, [ticker EXCEPT !.active = ~ticker.active])

\* TickerManagement (onUpdate): handleToggleActive
handleToggleActiveTicker(ticker) ==
  Put("/api/config/tickers", ticker.ticker, [is_active |-> ~ticker.is_active])

ToggleApiKey ==
  /\ c_pc = "input" /\ view = "apiKeySwitch"
  /\ shown' = <<handleToggleActiveApiKey(payload[1])>>
  /\ c_pc' = "rendered"
  /\ UNCHANGED <<script, view, payload, apiVars, hookVars>>
  /\ UNCHANGED <<cacheVars, concVars>>

ToggleApiKeyOwn ==
  /\ c_pc = "input" /\ view = "apiKeySwitchOwn"
  /\ shown' = <<handleToggleActiveApiKeyOwn(payload[1])>>
  /\ c_pc' = "rendered"
  /\ UNCHANGED <<script, view, payload, apiVars, hookVars>>
  /\ UNCHANGED <<cacheVars, concVars>>

ToggleTickerOwn ==
  /\ c_pc = "input" /\ view = "tickerSwitchOwn"
  /\ shown' = <<handleToggleActiveTickerOwn(payload[1])>>
  /\ c_pc' = "rendered"
  /\ UNCHANGED <<script, view, payload, apiVars, hookVars>>
  /\ UNCHANGED <<cacheVars, concVars>>

ToggleTicker ==
  /\ c_pc = "input" /\ view = "tickerSwitch"
  /\ shown' = <<handleToggleActiveTicker(payload[1])>>
  /\ c_pc' = "rendered"
  /\ UNCHANGED <<script, view, payload, apiVars, hookVars>>
  /\ UNCHANGED <<cacheVars, concVars>>

(***************************************************************************)
(* Specifications                                                          *)
(***************************************************************************)
InitApi ==
  /\ ConcIdle
  /\ script \in Scripts
  /\ caller = [api |-> "stock", kind |-> "query", retry |-> QUERY_RETRY_DEFAULT]
  /\ q_pc = "idle" /\ qFailureCount = 0 /\ httpSent = 0
  /\ rw_pc = "idle" /\ retries = 0 /\ delay = 0
  /\ rwCalls = 0 /\ rwDelays = <<>> /\ rwDecision = <<>>
  /\ HookIdle /\ CanonIdle /\ CacheIdle

NextApi ==
  \/ \E c \in Callers : QueryFetch(c)
  \/ RwFnResolve
  \/ RwFnReject
  \/ RwDelayElapsed
  \/ QueryRetry
  \/ QueryFail

SpecApi == InitApi /\ [][NextApi]_vars

InitHook ==
  /\ ConcIdle
  /\ script \in Scripts
  /\ ApiIdle /\ CanonIdle /\ CacheIdle
  /\ cfg \in Configs
  /\ error = <<>> /\ isRetrying = FALSE /\ retryCount = 0
  /\ autoResetTimer = "null" /\ retryTimer = "null"
  /\ ewr_pc = "idle" /\ attempts = 0 /\ lastError = <<>>
  /\ fnCalls = 0 /\ ewrDelays = <<>> /\ ewrFailed = <<>> /\ ewrResult = <<>>

NextHook ==
  \/ ExecuteWithRetry
  \/ EwrFnResolve
  \/ EwrFnReject
  \/ EwrRetryTimerFires
  \/ AutoResetFires
  \/ \E e \in ScriptErrors : HandleError(e)
  \/ ResetError

SpecHook == InitHook /\ [][NextHook]_vars

InitCanon ==
  /\ ConcIdle
  /\ script = [failN |-> 0, failErr |-> NetworkError, thenOut |-> OK]
  /\ ApiIdle /\ HookIdle /\ CacheIdle
  /\ c_pc = "input" /\ shown = <<>>
  /\ \/ view = "ratings" /\ payload \in {Null} \cup {<<d>> : d \in RatingsData}
     \/ view = "crowd" /\ payload \in {<<d>> : d \in CrowdData}
     \/ view = "hedge" /\ payload \in {<<d>> : d \in HedgeData}
     \/ view = "news" /\ payload \in {<<d>> : d \in NewsData}
     \/ view = "quant" /\ payload \in {<<d>> : d \in QuantData}

NextCanon ==
  \/ RenderRatings
  \/ RenderCrowd
  \/ RenderHedgeFund
  \/ RenderNews
  \/ RenderQuant

SpecCanon == InitCanon /\ [][NextCanon]_vars

InitCache ==
  /\ ConcIdle
  /\ script = [failN |-> 0, failErr |-> NetworkError, thenOut |-> OK]
  /\ ApiIdle /\ HookIdle /\ CanonIdle
  /\ queries = {} /\ lastRead = "disabled"
  /\ posts = [t \in Symbols |-> 0]
  /\ qc_pc = "mounted"

NextCache ==
  \/ \E t \in TickersArgs, o \in EnabledOptions :
       UseCompareTickers(t, P1d, ANALYST_RATINGS, o)
  \/ \E ps \in {PERIODS_LITERAL, P0d} : UseCompareOverTime(GM, ps, ANALYST_RATINGS, <<>>)
  \/ \E m \in {"tickers", "periods"}, t \in TickersArgs :
       UseComparisonData(m, t, GM, PERIODS_LITERAL, P1d, ANALYST_RATINGS)
  \/ \E m \in {"tickers", "periods"}, sel \in {<<GM>>, <<GM, F>>}, tr \in {P1d, P1w} :
       Comparison(m, sel, GM, tr, ANALYST_RATINGS)
  \/ \E t \in Symbols : UseAnalystRatings(t)
  \/ UseDashboardOverview
  \/ UseDashboardAlerts(H24)
  \/ Dashboard(GM)
  \/ FetchSettles
  \/ StaleTimeElapses
  \/ \E t \in Symbols : Mutate(t)
  \/ \E t \in Symbols, ok \in BOOLEAN : TriggerSettles(t, ok)

SpecCache == InitCache /\ [][NextCache]_vars

InitValid ==
  /\ ConcIdle
  /\ script = [failN |-> 0, failErr |-> NetworkError, thenOut |-> OK]
  /\ ApiIdle /\ HookIdle /\ CacheIdle
  /\ c_pc = "input" /\ shown = <<>>
  /\ view = "period" /\ payload \in {<<x>> : x \in ValidatorInputs}

NextValid == Validate

SpecValid == InitValid /\ [][NextValid]_vars

InitTable ==
  /\ ConcIdle
  /\ script = [failN |-> 0, failErr |-> NetworkError, thenOut |-> OK]
  /\ ApiIdle /\ HookIdle /\ CacheIdle
  /\ c_pc = "input" /\ shown = <<>>
  /\ view \in {"table", "csv"} /\ payload \in {<<c>> : c \in Comparisons}

NextTable ==
  \/ RenderComparisonTable
  \/ HandleExport

SpecTable == InitTable /\ [][NextTable]_vars

\* one hook instance whose operations overlap
InitOverlap ==
  /\ script = [failN |-> 0, failErr |-> NetworkError, thenOut |-> OK]
  /\ ApiIdle /\ CanonIdle /\ CacheIdle
  /\ ConcIdle
  /\ cfg \in OverlapConfigs
  /\ error = <<>> /\ isRetrying = FALSE /\ retryCount = 0
  /\ autoResetTimer = "null" /\ retryTimer = "null"
  /\ ewr_pc = "unmounted" /\ attempts = 0 /\ lastError = <<>>
  /\ fnCalls = 0 /\ ewrDelays = <<>> /\ ewrFailed = <<>> /\ ewrResult = <<>>

NextOverlap ==
  \/ \E s \in Slots : CallExecuteWithRetry(s)
  \/ \E s \in Slots : CallExecute(s)
  \/ \E s \in Slots : CallRetry(s)
  \/ \E s \in Slots : FnResolves(s)
  \/ \E s \in Slots, err \in OverlapErrors : FnRejects(s, err)
  \/ \E s \in Slots : RetryTimerFires(s)
  \/ AutoResetTimerFires
  \/ \E err \in OverlapErrors : CallHandleError(err)
  \/ CallResetError
  \/ CallClearTimers

SpecOverlap == InitOverlap /\ [][NextOverlap]_vars

\* the same hook instance when every attempt of fn settles and every live
\* timer fires (the browser's event loop runs a timer that stays scheduled)
OverlapFairness ==
  /\ \A s \in Slots :
       WF_vars(FnResolves(s) \/ \E err \in OverlapErrors : FnRejects(s, err))
  /\ \A s \in Slots : WF_vars(RetryTimerFires(s))
  /\ WF_vars(AutoResetTimerFires)

SpecOverlapFair == InitOverlap /\ [][NextOverlap]_vars /\ OverlapFairness

\* the admin tables: a key is displayed, or an active switch is toggled
InitAdmin ==
  /\ ConcIdle
  /\ script = [failN |-> 0, failErr |-> NetworkError, thenOut |-> OK]
  /\ ApiIdle /\ HookIdle /\ CacheIdle
  /\ c_pc = "input" /\ shown = <<>>
  /\ \/ view = "maskKey" /\ payload \in {<<k>> : k \in KeyInputs}
     \/ view = "apiKeySwitch" /\ payload \in {<<r>> : r \in ApiKeyRows}
     \/ view = "apiKeySwitchOwn" /\ payload \in {<<r>> : r \in ApiKeyRowsOwn}
     \/ view = "tickerSwitchOwn" /\ payload \in {<<r>> : r \in TickerRowsOwn}
     \/ view = "tickerSwitch" /\ payload \in {<<r>> : r \in TickerRows}

NextAdmin ==
  \/ MaskKey
  \/ ToggleApiKey
  \/ ToggleApiKeyOwn
  \/ ToggleTickerOwn
  \/ ToggleTicker

SpecAdmin == InitAdmin /\ [][NextAdmin]_vars

\* all three together: a query, a hook instance or a page
Init == InitApi \/ InitHook \/ InitCanon

Next == NextApi \/ NextHook \/ NextCanon

Spec == Init /\ [][Next]_vars

(***************************************************************************)
(* Properties                                                              *)
(***************************************************************************)
\* the classification the retry policy is specified with: a timeout, a
\* network failure, an HTTP 5xx or an HTTP 429 is transient
Transient(err) ==
  \/ err.code = "ECONNABORTED"
  \/ err.code = "ERR_NETWORK"
  \/ (err.status >= 500 /\ err.status <= 599)
  \/ err.status = 429

Other4xx(err) == err.status >= 400 /\ err.status <= 499 /\ err.status # 429

RwSettled == rw_pc \in {"resolved", "rejected"}

\* C1: retryWithDelay retries a failed request if and only if retries remain
\* and the failure is transient (timeout, network failure, HTTP 5xx or HTTP
\* 429); a failure with any other 4xx status is never retried.
C1_RetryIffTransient ==
  rwDecision # <<>> =>
    LET d == rwDecision[1]
    IN /\ d.retried <=> (d.retries > 0 /\ Transient(d.error))
       /\ Other4xx(d.error) => ~d.retried

\* C2: a read issued through a react-query query that receives a 4xx other
\* than 429 on its first attempt has sent exactly one HTTP request when the
\* error is reported to the page.
C2_PermanentNotRetried ==
  (q_pc = "error" /\ caller.kind = "query" /\ Other4xx(Outcome(script, 1)))
    => httpSent = 1

EwrRunning == ewr_pc \in {"awaitFn", "backoff"}

AllRetryable(errs) == \A i \in 1..Len(errs) : isRetryableError(errs[i])

RecoversAfter(n) ==
  /\ script.failN = n
  /\ script.thenOut = OK
  /\ n > 0 => Transient(script.failErr)

\* C4 for retryWithDelay (the first call chain of a fetch)
C4_RetryWithDelayPart ==
  (RwSettled /\ qFailureCount = 0 /\ RecoversAfter(script.failN)
     /\ script.failN <= MAX_RETRIES(caller.api))
    => (rw_pc = "resolved" /\ rwCalls = script.failN + 1)

\* C4 for executeWithRetry
C4_ExecuteWithRetryPart ==
  (ewr_pc = "returned" /\ RecoversAfter(script.failN) /\ script.failN <= cfg.maxRetries)
    => (ewrResult = <<OK>> /\ fnCalls = script.failN + 1)

\* C4: given N <= max-retries consecutive transient failures followed by
\* recovery, a retried call (retryWithDelay, executeWithRetry) invokes the
\* wrapped function exactly N+1 times and delivers one successful result.
C4_ExactlyOneSuccess == C4_RetryWithDelayPart /\ C4_ExecuteWithRetryPart

\* the wrapped function fails transiently on each of its first n invocations
AlwaysTransient(n) ==
  \A k \in 1..n : Outcome(script, k) # OK /\ Transient(Outcome(script, k))

\* C5 for retryWithDelay (the first call chain of a fetch)
C5_RetryWithDelayPart ==
  (RwSettled /\ qFailureCount = 0 /\ AlwaysTransient(MAX_RETRIES(caller.api) + 1))
    => /\ rw_pc = "rejected"
       /\ rwCalls = MAX_RETRIES(caller.api) + 1
       /\ rwDecision[1].error = Outcome(script, rwCalls)

\* C5 for executeWithRetry
C5_ExecuteWithRetryPart ==
  (ewr_pc = "returned" /\ fnCalls > 0 /\ AlwaysTransient(cfg.maxRetries + 1))
    => /\ fnCalls = cfg.maxRetries + 1
       /\ ewrResult = <<>>
       /\ lastError = <<Outcome(script, fnCalls)>>

\* C5: if the wrapped function fails transiently on every attempt,
\* retryWithDelay invokes it exactly MAX_RETRIES+1 times (4 in stockApi, 3 in
\* adminApi) and executeWithRetry exactly maxRetries+1 times, and the call
\* ends with the last error.
C5_BoundedRetries == C5_RetryWithDelayPart /\ C5_ExecuteWithRetryPart

\* C6: the wait before the k-th retry is base * 2^(k-1): 1000, 2000, 4000 ms
\* for retryWithDelay, retryDelay * 2^(k-1) for executeWithRetry when
\* exponentialBackoff is enabled.
C6_BackoffDoubles ==
  /\ \A k \in 1..Len(rwDelays) : rwDelays[k] = RETRY_DELAY * Pow2(k - 1)
  /\ cfg.exponentialBackoff =>
       \A k \in 1..Len(ewrDelays) : ewrDelays[k] = cfg.retryDelay * Pow2(k - 1)

C6_Witness == rwDelays = <<1000, 2000, 4000>>

C6_WitnessHook ==
  /\ cfg.exponentialBackoff /\ cfg.retryDelay = 250
  /\ ewrDelays = <<250, 500, 1000>>

\* C7: isRetryableError, createErrorResponse(...).retryable and the hook's
\* isRetryable are true exactly for a timeout, a network failure, an HTTP 5xx
\* or an HTTP 429, and false for every error with any other 4xx status.
C7_RetryableFlagConsistent ==
  /\ \A e \in Errors :
       /\ isRetryableError(e) = Transient(e)
       /\ createErrorResponse(e).retryable = Transient(e)
       /\ Other4xx(e) => ~isRetryableError(e)
  /\ hasError => isRetryable = Transient(error[1].originalError)

C7_Witness ==
  /\ hasError /\ error[1].originalError = HttpError(429) /\ isRetryable

CountFields == {"buy", "hold", "sell", "total_analysts"}
ParsedCount(data, f) ==
  CASE f = "buy" -> data.buy_count
    [] f = "hold" -> data.hold_count
    [] f = "sell" -> data.sell_count
    [] f = "total_analysts" -> data.total_analysts
RawCount(data, f) ==
  IF data.raw_data = Null THEN Null
  ELSE CASE f = "buy" -> data.raw_data[1].buy
         [] f = "hold" -> data.raw_data[1].hold
         [] f = "sell" -> data.raw_data[1].sell
         [] f = "total_analysts" -> data.raw_data[1].numberOfAnalystRatings

RatingsRendered == c_pc = "rendered" /\ view = "ratings" /\ payload # Null

\* C8: extractRatings returns a parsed count that is 0 unchanged, even if
\* raw_data.analystConsensus holds a different non-zero value for it.
C8_ZeroIsKept ==
  RatingsRendered =>
    \A f \in CountFields :
      ParsedCount(payload[1], f) = Num(0) => shown[1][f] = Num(0)

\* C9: a metric absent in both the parsed and the raw location is never
\* shown as the number 0: the analyst rating counts, the crowd sentiment
\* score and the hedge-fund sentiment.
C9_AbsentIsNotZero ==
  /\ RatingsRendered =>
       \A f \in CountFields :
         (Nullish(ParsedCount(payload[1], f)) /\ Nullish(RawCount(payload[1], f)))
           => shown[1][f] # Num(0)
  /\ (c_pc = "rendered" /\ view = "crowd") =>
       ((/\ Nullish(payload[1].sentiment_score)
         /\ (payload[1].raw_data = Null \/ Nullish(payload[1].raw_data[1].score)))
          => shown[1] # Num(0))
  /\ (c_pc = "rendered" /\ view = "hedge") =>
       ((/\ Nullish(payload[1].sentiment)
         /\ (payload[1].raw_data = Null \/ Nullish(payload[1].raw_data[1].sentiment)))
          => shown[1].sentiment # Num(0))

\* C10: a field whose parsed value is present is never replaced by the value
\* from the raw payload, whatever the other fields of the record hold.
C10_ParsedFirst ==
  /\ (c_pc = "rendered" /\ view = "news") =>
       LET d == payload[1]
       IN /\ ~Nullish(d.stock_bullish_score) => shown[1].stockBullish = d.stock_bullish_score
          /\ ~Nullish(d.stock_bearish_score) => shown[1].stockBearish = d.stock_bearish_score
          /\ ~Nullish(d.sector_bullish_score) => shown[1].sectorBullish = d.sector_bullish_score
          /\ ~Nullish(d.sector_bearish_score) => shown[1].sectorBearish = d.sector_bearish_score
  /\ (c_pc = "rendered" /\ view = "quant") =>
       LET d == payload[1]
       IN /\ ~Nullish(d.overall_score) => shown[1].overall_score = d.overall_score
          /\ ~Nullish(d.value_score) => shown[1].value_score = d.value_score
          /\ ~Nullish(d.growth_score) => shown[1].growth_score = d.growth_score
          /\ ~Nullish(d.quality_score) => shown[1].quality_score = d.quality_score
          /\ ~Nullish(d.momentum_score) => shown[1].momentum_score = d.momentum_score
          /\ ~Nullish(d.income_score) => shown[1].income_score = d.income_score

\* C11 ---------------------------------------------------------------------
NewsFields == {"stockBullish", "stockBearish", "sectorBullish", "sectorBearish"}

NewsParsed(d, f) ==
  CASE f = "stockBullish" -> d.stock_bullish_score
    [] f = "stockBearish" -> d.stock_bearish_score
    [] f = "sectorBullish" -> d.sector_bullish_score
    [] f = "sectorBearish" -> d.sector_bearish_score

NewsRaw(d, f) == IF d.raw_data = Null THEN Null ELSE d.raw_data[1][f]

NewsRendered == c_pc = "rendered" /\ view = "news"

\* decimal form: magnitude <= 1.0 (values are in hundredths)
InDecimalForm(x) == ~Nullish(x) /\ x[1] <= 100 /\ x[1] >= -100

Rescaled(x) == IF InDecimalForm(x) THEN Num(x[1] * 100) ELSE x

\* C11: each bullish/bearish percentage the news-sentiment page computes
\* with is the parsed or the raw value of that field, multiplied by 100 if
\* it was in decimal form (magnitude <= 1.0) and unchanged otherwise,
\* whichever of the two locations it was read from.
C11_PercentScale ==
  NewsRendered =>
    \A f \in NewsFields :
      shown[1][f] \in {Rescaled(NewsParsed(payload[1], f)), Rescaled(NewsRaw(payload[1], f))}

\* C12 ---------------------------------------------------------------------
\* the ticker symbols a tickers parameter names
SymbolsIn(s) == SelectSeq(Split(s), LAMBDA tok : tok # <<>>)

\* a cache entry exists exactly for a request that was sent
Requests == {e.url : e \in queries}

\* C12: no compare-tickers request is sent with fewer than two ticker
\* symbols, whoever mounts the query and whatever options are passed.
C12_AtLeastTwoTickers ==
  \A u \in Requests :
    u.path = "/compare/tickers/multi" => Len(SymbolsIn(u.query[1])) >= 2

\* C13 ---------------------------------------------------------------------
Digits == {"0", "1", "2", "3", "4", "5", "6", "7", "8", "9"}
Units == {"h", "d", "w", "m"}

\* the whole string matches [1-9][0-9]*[hdwm]
MatchesPeriodPattern(s) ==
  /\ Len(s) >= 2
  /\ s[1] \in Digits \ {"0"}
  /\ \A i \in 2..(Len(s) - 1) : s[i] \in Digits
  /\ s[Len(s)] \in Units

\* C13: compareOverTime and compareTickers send no request whose period or
\* periods parameter holds a token that does not match [1-9][0-9]*[hdwm].
C13_MalformedPeriodRejected ==
  \A u \in Requests :
    u.path \in {"/compare/", "/compare/tickers/multi"} =>
      \A i \in 1..Len(Split(u.query[2])) : MatchesPeriodPattern(Split(u.query[2])[i])

\* C14 ---------------------------------------------------------------------
Validated == c_pc = "rendered" /\ view = "period"

\* C14: isValidTimeRange and isValidPeriod accept an input exactly when it
\* is a string that as a whole matches [1-9][0-9]*[hdwm], with a lowercase
\* unit letter, and reject every other input.
C14_ExactPattern ==
  Validated =>
    LET x == payload[1]
        matches == x.type = "string" /\ MatchesPeriodPattern(x.chars)
    IN /\ shown[1].isValidTimeRange = matches
       /\ shown[1].isValidPeriod = matches

\* C15 ---------------------------------------------------------------------
\* C15: after a collection trigger succeeds, no render is given, without a
\* fetch, the cached response of a query about the triggered ticker that
\* was fetched before the collection: every such entry was invalidated.
C15_InvalidatedAfterCollection == lastRead # "pre"

\* C16 ---------------------------------------------------------------------
\* C16: two reads share a cache entry exactly if they issue the same
\* request: no render is given the cached response of another request, and
\* no two entries of the cache hold the same request under different keys.
C16_KeyedByRequest ==
  /\ lastRead # "other"
  /\ \A e1, e2 \in queries : (e1.key = e2.key) <=> (e1.url = e2.url)

\* C17 ---------------------------------------------------------------------
\* an entry whose fetch is in flight or whose result is within staleTime
Live(e) == e.state # "stale"

\* C17: no request is sent for a read while a fetch of the same request is
\* in flight or a fresh result of it is cached: two live entries never hold
\* the same request, since each entry was filled by a request of its own.
C17_SingleFlight ==
  \A e1, e2 \in queries : (Live(e1) /\ Live(e2) /\ e1.url = e2.url) => e1 = e2

\* C18 ---------------------------------------------------------------------
ZeroFlat == [previous_value |-> Num(0), absolute_change |-> Num(0),
             percent_change |-> Num(0), trend |-> <<"flat">>]

CompFields == <<"previous_value", "absolute_change", "percent_change", "trend">>

\* C18: a comparison field that is null is rendered, in the table and in
\* the CSV line, differently from the same field holding a genuine 0 (for
\* previous_value, absolute_change, percent_change) or 'flat' (for trend).
C18_NoDataIsNotZero ==
  /\ (c_pc = "rendered" /\ view = "table") =>
       \A i \in 1..Len(CompFields) :
         Nullish(payload[1][CompFields[i]]) => shown[1][i] # ComparisonTable(ZeroFlat)[i]
  /\ (c_pc = "rendered" /\ view = "csv") =>
       \A i \in 1..Len(CompFields) :
         Nullish(payload[1][CompFields[i]]) => shown[1][i] # handleExport(ZeroFlat)[i]

\* C19 ---------------------------------------------------------------------
\* C19: at most one collection-trigger POST per ticker is in flight at any
\* instant: a second mutate for the ticker before the first has settled
\* sends nothing.
C19_TriggerCoalesced == \A t \in Symbols : posts[t] <= 1

\* C20 ---------------------------------------------------------------------
\* the mutation callers send the non-idempotent POSTs: triggerCollection is
\* stockApi's only mutation, createTicker and createAPIKey are adminApi's
SendsPost(c) == c.kind = "mutation"

\* C20: retryWithDelay sends no further attempt of a POST after an attempt
\* of it timed out on the client, which the server may have received.
C20_NoResendAfterTimeout ==
  (q_pc # "unmounted" /\ SendsPost(caller)) =>
    \A k \in 1..httpSent : Outcome(script, k) = TimeoutError => k = httpSent

\* C21 ---------------------------------------------------------------------
\* C21: the API layer and the error handler classify every error alike:
\* whenever retryWithDelay (stockApi or adminApi) decides about a failure
\* with retries remaining, it retries exactly when isRetryableError holds
\* of that error.
C21_SingleClassification ==
  (rwDecision # <<>> /\ rwDecision[1].retries > 0)
    => (rwDecision[1].retried <=> isRetryableError(rwDecision[1].error))

\* C22 ---------------------------------------------------------------------
\* C22: one query fetch sends at most MAX_RETRIES + 1 HTTP requests in
\* total, the retries of retryWithDelay and of react-query counted together.
C22_AttemptCapEndToEnd ==
  caller.kind = "query" => httpSent <= MAX_RETRIES(caller.api) + 1

\* C23 ---------------------------------------------------------------------
HedgeFields == {"sentiment", "trend_action", "trend_value"}

HedgeRaw(d, f) ==
  IF d.raw_data = Null THEN Null
  ELSE CASE f = "sentiment" -> d.raw_data[1].sentiment
         [] f = "trend_action" -> d.raw_data[1].trendAction
         [] f = "trend_value" -> d.raw_data[1].trendValue

QuantScoreFields ==
  {"overall_score", "value_score", "growth_score", "quality_score",
   "momentum_score", "income_score"}

QuantRaw(d, f) ==
  IF d.raw_data = Null \/ d.raw_data[1] # "list" THEN Null
  ELSE LET rawItem == d.raw_data[2]
       IN CASE f = "overall_score" -> rawItem.quantamental
            [] f = "value_score" -> rawItem.valuation
            [] f = "growth_score" -> rawItem.growth
            [] f = "quality_score" -> rawItem.quality
            [] f = "momentum_score" -> rawItem.momentum
            [] f = "income_score" -> rawItem.income

\* C23: a field that is absent in the parsed location and present in the raw
\* payload is shown with the raw payload's value (as a percentage on the
\* news page), whatever the other fields of the record hold.
C23_FallbackPerField ==
  /\ (c_pc = "rendered" /\ view = "hedge") =>
       \A f \in HedgeFields :
         (Nullish(payload[1][f]) /\ ~Nullish(HedgeRaw(payload[1], f)))
           => shown[1][f] = HedgeRaw(payload[1], f)
  /\ NewsRendered =>
       \A f \in NewsFields :
         (Nullish(NewsParsed(payload[1], f)) /\ ~Nullish(NewsRaw(payload[1], f)))
           => shown[1][f] = ToPercent(NewsRaw(payload[1], f))
  /\ (c_pc = "rendered" /\ view = "quant") =>
       \A f \in QuantScoreFields :
         (Nullish(payload[1][f]) /\ ~Nullish(QuantRaw(payload[1], f)))
           => shown[1][f] = QuantRaw(payload[1], f)

\* C24 ---------------------------------------------------------------------
EwrCallRunning(s) == IsEwr(hookCalls[s]) /\ hookCalls[s].pc \in {"awaitFn", "backoff"}

\* C24: every executeWithRetry call eventually settles when fn settles each
\* attempt, whatever other hook methods (resetError, handleError,
\* clearTimers, another executeWithRetry) run while it waits.
C24_EveryCallSettles ==
  \A s \in Slots : EwrCallRunning(s) ~> (hookCalls[s].pc = "returned")

\* C25 ---------------------------------------------------------------------
RetryAttemptInFlight(s) ==
  /\ hookCalls[s].pc = "awaitFn"
  /\ \/ hookCalls[s].kind = "retry"
     \/ IsEwr(hookCalls[s]) /\ hookCalls[s].attempts > 0

\* C25: isRetrying is true while a retry attempt is in flight: a manual
\* retry(), or a second or later attempt of executeWithRetry, that has not
\* settled yet.
C25_RetryingWhileInFlight ==
  \A s \in Slots : RetryAttemptInFlight(s) => isRetrying

\* C26 ---------------------------------------------------------------------
PendingAutoResetTimers ==
  orphanTimers + (IF autoResetTimer = "pending" THEN 1 ELSE 0)

\* C26: at most one auto-reset timer is pending, and it is the one started
\* with the current error; no timer started for an earlier error is left to
\* clear a later one.
C26_OneAutoResetTimer ==
  /\ PendingAutoResetTimers <= 1
  /\ orphanTimers = 0
  /\ autoResetTimer = "pending" => hasError

\* an error set by a failed manual retry of an earlier error, with its timer
C26_Witness ==
  \E s \in Slots :
    /\ hookCalls[s].kind = "retry" /\ hookCalls[s].pc = "returned"
    /\ hookCalls[s].result = "null"
    /\ hasError /\ autoResetTimer = "pending"

\* C27 ---------------------------------------------------------------------
\* C27: retryCount never exceeds the configured maxRetries.
C27_RetryCountBounded == retryCount <= cfg.maxRetries

\* C28 ---------------------------------------------------------------------
CompletesSuccessfully(s) ==
  /\ hookCalls[s].pc = "awaitFn"
  /\ hookCalls'[s].pc = "returned"
  /\ hookCalls'[s].result = "ok"

\* C28: when an operation run through the hook (execute, executeWithRetry,
\* retry) completes successfully, hasError is false.
C28_SuccessClearsError ==
  [][\A s \in Slots : CompletesSuccessfully(s) => ~hasError']_vars

\* C29 ---------------------------------------------------------------------
\* C29: maskKey never shows a complete key: for every non-empty key string
\* (the keys isValidApiKey accepts among them) the displayed value differs
\* from the key and contains at least one '*'.
C29_KeyNeverRevealed ==
  (c_pc = "rendered" /\ view = "maskKey" /\ payload[1].chars # <<>>) =>
    /\ shown[1].masked # payload[1].chars
    /\ \E i \in 1..Len(shown[1].masked) : shown[1].masked[i] = "*"

\* C30 ---------------------------------------------------------------------
SwitchViews == {"apiKeySwitch", "apiKeySwitchOwn", "tickerSwitchOwn", "tickerSwitch"}

\* C30: the update an active switch sends holds the active flag and no other
\* field of the table row.
C30_ToggleSendsOnlyActive ==
  (c_pc = "rendered" /\ view \in SwitchViews) =>
    \/ DOMAIN shown[1].data = {"active"}
    \/ DOMAIN shown[1].data = {"is_active"}

====
